---- MODULE Spec2Model ----
(***************************************************************************)
(* A model of the beekeeper node registry (lib/node.go), the receiving     *)
(* job lifecycle handlers (lib/callbacks.go) and the fan-out dispatcher    *)
(* ExecuteMany (lib/node.go).                                              *)
(*                                                                         *)
(* Go strings and byte slices are sequences of chunks: "" and an empty     *)
(* []byte are <<>>, concatenation is \o, len(x) == 0 is x = <<>>.          *)
(***************************************************************************)
EXTENDS Integers, Sequences, FiniteSets, TLC

VARIABLES
    \* the registry (requester process)
    nodes,      \* Server.nodes, the registry slice
    upserted,   \* history: the arguments of the updateNode calls so far
    regOp,      \* history: the last registry operation and its argument
    found,      \* the value the last find call returned
    sortIn,     \* the Nodes slice sort is called on
    sortOut,    \* the slice after sort, with the sort.Slice build that made it
    eqIn,       \* the two Nodes Equals is called on
    eqOut,      \* what Equals returned
    nodesLock,  \* Server.nodesLock: the caller holding it, 0 when free
    callers,    \* callers[p]: the concurrent updateNode call of goroutine p
    \* the node processes
    status,     \* status[i]: Server.Status of node process i
    jobBin,     \* jobBin[i]: the file .beekeeper/job.bin of node i
    inbox,      \* inbox[i][c]: messages sent to node i on connection c, unhandled
    outbox,     \* outbox[i][c]: messages node i sent on connection c, unread
    running,    \* running[i][c]: the handler of connection c is inside runLocalJob
    tally,      \* history: tally[i][c], how often each event of connection c happened
    lastSend,   \* history: lastSend[i][c], the last sendWithConn on connection c
    lastMade,   \* history: lastMade[i][c], the last Result a handler of c built
    injected,   \* history: the number of messages the peer has sent
    \* the requester process
    mpc,        \* ExecuteMany: "idle", "loop" or "returned"
    margs,      \* ExecuteMany: its arguments and the job binary of the requester
    results,    \* ExecuteMany: the local slice results
    ret,        \* ExecuteMany: the returned pair
    wpc,        \* wpc[i]: where the goroutine started for node i is
    wret,       \* wret[i]: what Execute returned to the goroutine of node i
    etally      \* history: etally[i], how often Execute for node i did each step

pureVars == <<sortIn, sortOut, eqIn, eqOut>>

lockVars == <<nodesLock, callers>>

regVars == <<nodes, upserted, regOp, found, sortIn, sortOut, eqIn, eqOut,
             nodesLock, callers>>

nodeVars == <<status, jobBin, inbox, outbox, running, tally, lastSend, lastMade, injected>>

reqVars == <<mpc, margs, results, ret, wpc, wret, etally>>

vars == <<nodes, upserted, regOp, found, sortIn, sortOut, eqIn, eqOut,
          nodesLock, callers,
          status, jobBin, inbox, outbox, running, tally, lastSend, lastMade, injected,
          mpc, margs, results, ret, wpc, wret, etally>>

-----------------------------------------------------------------------------
(* Bounds *)

MaxCalls == 4       \* updateNode calls in one behaviour
NumNodes == 2       \* node processes
MaxInject == 3      \* messages a peer sends to the node in one behaviour
MaxSortLen == 7     \* length of the slices sort is called on
NumCallers == 2     \* goroutines calling updateNode at the same time

-----------------------------------------------------------------------------
(* net.IP values: 4-byte and 16-byte slices *)

v4InV6Prefix == <<0, 0, 0, 0, 0, 0, 0, 0, 0, 0, 255, 255>>

IPa4 == <<10, 0, 0, 1>>
IPa16 == v4InV6Prefix \o IPa4
IPb4 == <<10, 0, 0, 2>>
IPc16 == <<32, 1, 13, 184, 0, 0, 0, 0, 0, 0, 0, 0, 0, 0, 0, 1>>

IPs == {IPa4, IPa16, IPb4, IPc16}

IPv4len == 4
IPv6len == 16

\* The comparison bytes.Equal would make.
IPEqualBytes(ip, x) ==
    ip = x

\* net.IP.Equal as called by updateNode, find and Equals: an IPv4 address
\* and the same address in its 16-byte form are equal.
IPEqual(ip, x) ==
    IF Len(ip) = Len(x) THEN ip = x
    ELSE IF Len(ip) = IPv4len /\ Len(x) = IPv6len
         THEN SubSeq(x, 1, 12) = v4InV6Prefix /\ ip = SubSeq(x, 13, 16)
    ELSE IF Len(ip) = IPv6len /\ Len(x) = IPv4len
         THEN SubSeq(ip, 1, 12) = v4InV6Prefix /\ SubSeq(ip, 13, 16) = x
    ELSE FALSE

-----------------------------------------------------------------------------
(* Node values *)

StatusIDLE == "Idle"
StatusWorking == "Working"

\* The zero value NodeInfo{}.
ZeroNodeInfo == [OS |-> <<>>, Usage |-> 0, CPUTemp |-> 0]

\* The zero value Node{}: nil Conn, nil Addr, empty Name, zero Status and Info.
ZeroNode ==
    [Conn |-> "nil", Addr |-> [nil |-> TRUE, IP |-> <<>>, Port |-> 0],
     Name |-> <<>>, Status |-> "zero", Info |-> ZeroNodeInfo]

\* A Node with every field set; the two variants differ in every field but the IP.
MkNode(ip, variant) ==
    IF variant = 1
    THEN [Conn |-> "conn1", Addr |-> [nil |-> FALSE, IP |-> ip, Port |-> 2020],
          Name |-> <<"A">>, Status |-> StatusIDLE, Info |-> [OS |-> <<"linux">>, Usage |-> 10, CPUTemp |-> 40]]
    ELSE [Conn |-> "conn2", Addr |-> [nil |-> FALSE, IP |-> ip, Port |-> 2021],
          Name |-> <<"B">>, Status |-> StatusWorking, Info |-> [OS |-> <<"darwin">>, Usage |-> 90, CPUTemp |-> 0]]

NodeValues == {MkNode(ip, v) : ip \in IPs, v \in {1, 2}}

-----------------------------------------------------------------------------
(* Registry operations *)

\* The index of the first entry of n whose IP equals addr, 0 when there is none:
\* the scan of updateNode and find.
RECURSIVE scanFrom(_, _, _)
scanFrom(n, addr, i) ==
    IF i > Len(n) THEN 0
    ELSE IF IPEqual(n[i].Addr.IP, addr) THEN i
    ELSE scanFrom(n, addr, i + 1)

\* updateNode without the scan.
updateNodeAppendAlways(n, node2) ==
    Append(n, node2)

\* updateNode replacing every field but Status.
updateNodeKeepStatus(n, node2) ==
    LET i == scanFrom(n, node2.Addr.IP, 1) IN
    IF i # 0 THEN [n EXCEPT ![i] = [node2 EXCEPT !.Status = n[i].Status]]
    ELSE Append(n, node2)

\* updateNode putting a new node first.
updateNodePrepend(n, node2) ==
    LET i == scanFrom(n, node2.Addr.IP, 1) IN
    IF i # 0 THEN [n EXCEPT ![i] = node2]
    ELSE <<node2>> \o n

\* The registry after s.updateNode(node2), n being s.nodes before the call.
updateNodeResult(n, node2) ==
    LET i == scanFrom(n, node2.Addr.IP, 1) IN
    IF i # 0 THEN [n EXCEPT ![i] = node2]
    ELSE Append(n, node2)

\* Nodes.find
find(n, addr) ==
    LET i == scanFrom(n, addr, 1) IN
    IF i # 0 THEN n[i] ELSE ZeroNode

\* One call s.updateNode(node2). The lock is held from entry to return, so the
\* scan and the mutation are one step.
updateNode(node2) ==
    /\ Len(upserted) < MaxCalls
    /\ nodes' = updateNodeResult(nodes, node2)
    /\ upserted' = Append(upserted, node2)
    /\ regOp' = [op |-> "updateNode", node |-> node2, addr |-> node2.Addr.IP]
    /\ UNCHANGED <<found, pureVars, lockVars, nodeVars, reqVars>>

\* One call s.nodes.find(addr).
Find(addr) ==
    /\ found' = find(nodes, addr)
    /\ regOp' = [op |-> "find", node |-> ZeroNode, addr |-> addr]
    /\ UNCHANGED <<nodes, upserted, pureVars, lockVars, nodeVars, reqVars>>

RegInit ==
    /\ nodes = <<>>
    /\ upserted = <<>>
    /\ regOp = [op |-> "none", node |-> ZeroNode, addr |-> <<>>]
    /\ found = ZeroNode

RegNext ==
    \/ \E node2 \in NodeValues : updateNode(node2)
    \/ \E addr \in IPs : Find(addr)

-----------------------------------------------------------------------------
(* Nodes.sort and Node.Equals *)

\* bytes.Compare: -1, 0 or 1 by the lexicographic order of the bytes, a proper
\* prefix being smaller.
RECURSIVE bytesCompare(_, _)
bytesCompare(a, b) ==
    IF a = <<>> /\ b = <<>> THEN 0
    ELSE IF a = <<>> THEN -1
    ELSE IF b = <<>> THEN 1
    ELSE IF Head(a) < Head(b) THEN -1
    ELSE IF Head(a) > Head(b) THEN 1
    ELSE bytesCompare(Tail(a), Tail(b))

\* The comparison with the inequality turned around.
sortLessDescending(a, b) == bytesCompare(a.Addr.IP, b.Addr.IP) > 0

\* The less function sort hands to sort.Slice, on two entries.
sortLess(a, b) == bytesCompare(a.Addr.IP, b.Addr.IP) < 0

swap(n, i, j) == [n EXCEPT ![i] = n[j], ![j] = n[i]]

\* sort.Slice on at most 12 elements. Go up to 1.18 (quickSort_func) makes one
\* pass comparing the elements 6 apart and then sorts by insertion; Go from
\* 1.19 (pdqsort_func) sorts by insertion alone.
RECURSIVE insertionInner(_, _)
insertionInner(n, j) ==
    IF j > 1 /\ sortLess(n[j], n[j - 1])
    THEN insertionInner(swap(n, j, j - 1), j - 1)
    ELSE n

RECURSIVE insertionSort(_, _)
insertionSort(n, i) ==
    IF i > Len(n) THEN n ELSE insertionSort(insertionInner(n, i), i + 1)

RECURSIVE shellPass(_, _)
shellPass(n, i) ==
    IF i > Len(n) THEN n
    ELSE shellPass(IF sortLess(n[i], n[i - 6]) THEN swap(n, i, i - 6) ELSE n, i + 1)

SortBuilds == {"quickSort", "pdqsort"}

\* Nodes.sort: the slice after sort.Slice of the build.
sortResult(n, build) ==
    IF Len(n) <= 1 THEN n
    ELSE IF build = "quickSort" THEN insertionSort(shellPass(n, 7), 2)
    ELSE insertionSort(n, 2)

\* Equals that also compares the ports.
EqualsWithPort(n, w2) ==
    IPEqual(n.Addr.IP, w2.Addr.IP) /\ n.Addr.Port = w2.Addr.Port

\* Node.Equals
Equals(n, w2) == IPEqual(n.Addr.IP, w2.Addr.IP)

\* The entries of the slices sort is called on: the k-th is named after k.
SortIPs == {IPa4, IPa16, IPb4}

SortEntry(ip, k) == [MkNode(ip, 1) EXCEPT !.Name = <<ToString(k)>>]

SortInputs ==
    UNION {{[k \in 1..len |-> SortEntry(f[k], k)] : f \in [1..len -> SortIPs]} :
             len \in 0..MaxSortLen}

\* One call n.sort().
Sort(build) ==
    /\ sortOut.build = "none"
    /\ sortOut' = [build |-> build, n |-> sortResult(sortIn, build)]
    /\ UNCHANGED <<nodes, upserted, regOp, found, sortIn, eqIn, eqOut, lockVars,
                   nodeVars, reqVars>>

\* One call n.Equals(w2).
EqualsCall ==
    /\ eqOut = "none"
    /\ eqOut' = IF Equals(eqIn[1], eqIn[2]) THEN "true" ELSE "false"
    /\ UNCHANGED <<nodes, upserted, regOp, found, sortIn, sortOut, eqIn, lockVars,
                   nodeVars, reqVars>>

PureInit ==
    /\ sortIn = <<>>
    /\ sortOut = [build |-> "none", n |-> <<>>]
    /\ eqIn = <<ZeroNode, ZeroNode>>
    /\ eqOut = "none"

-----------------------------------------------------------------------------
(* Messages, tasks, results, errors *)

NodeIds == 1..NumNodes

\* The node under test of SpecNode: the first one.
TestNode == CHOOSE i \in NodeIds : \A j \in NodeIds : i <= j

\* A node process serves the connection of the requester ("req") and the
\* connection of one other peer ("peer").
Conns == {"req", "peer"}

NodeName(i) == <<"node-", ToString(i)>>

RequesterName == <<"keeper">>

OperationStatus == "Status"
OperationJobTransfer == "JobTransfer"
OperationTransferAcknowledge == "TransferAcknowledge"
OperationTransferFailed == "TransferFailed"
OperationJobExecute == "JobExecute"
OperationJobResult == "JobResult"
\* The Operation field of a Message literal that does not set it.
OperationUnset == "unset"

Msg(op, data) ==
    [Operation |-> op, Name |-> <<>>, Data |-> data, NodeInfo |-> ZeroNodeInfo]

NilErr == [nil |-> TRUE, text |-> <<>>]

Err(text) == [nil |-> FALSE, text |-> text]

ZeroResult == [UUID |-> "", Error |-> <<>>]

ZeroTask == [UUID |-> ""]

TaskUUIDs == {"u1"}

JobBinary == <<"ELF">>

\* Task.encode / decodeTask and Result.encode / decodeResult: the codec.
encodeTask(t) == <<"gob:Task", t.UUID>>

decodeTask(data) ==
    IF Len(data) = 2 /\ data[1] = "gob:Task"
    THEN [task |-> [UUID |-> data[2]], err |-> NilErr]
    ELSE [task |-> ZeroTask, err |-> Err(<<"unexpected EOF">>)]

encodeResult(r) == <<"gob:Result", r.UUID>> \o r.Error

decodeResult(data) ==
    IF Len(data) >= 2 /\ data[1] = "gob:Result"
    THEN [res |-> [UUID |-> data[2], Error |-> SubSeq(data, 3, Len(data))],
          err |-> NilErr]
    ELSE [res |-> ZeroResult, err |-> Err(<<"unexpected EOF">>)]

\* sendWithConn: the message as it goes on the wire, with the sender's name.
Stamp(name, msg) == [msg EXCEPT !.Name = name]

\* The record t with the counters named in fs raised by one.
Bump(t, fs) == [f \in DOMAIN t |-> IF f \in fs THEN t[f] + 1 ELSE t[f]]

Count(i, c, fs) == tally' = [tally EXCEPT ![i][c] = Bump(@, fs)]

-----------------------------------------------------------------------------
(* The node process: the callbacks of lib/callbacks.go *)

MkdirErrText == <<"mkdir .beekeeper: permission denied">>
SaveErrText == <<"disk full">>
JobErrText == <<"exit status 1">>

\* What the file system does to one jobTransferCallback.
TransferEnvs == {"ok", "mkdirErr", "saveErr"}

\* What runLocalJob does.
JobEnvs == {"ok", "jobErr"}

NoJob == [active |-> FALSE, task |-> ZeroTask]

NoTally ==
    [recvTransfer |-> 0, sendAck |-> 0, sendFailed |-> 0, recvExecute |-> 0,
     started |-> 0, made |-> 0, sendResult |-> 0, recvStatus |-> 0,
     recvStatusWorking |-> 0]

\* The handler of connection c of node i is between two messages.
HandlerReady(i, c) == inbox[i][c] # <<>> /\ ~running[i][c].active

\* The handler takes the first message of its connection.
Take(i, c) == inbox' = [inbox EXCEPT ![i][c] = Tail(@)]

\* s.sendWithConn(conn, msg) of node i: the message arrives when sendOk.
NodeSend(i, c, msg, sendOk) ==
    /\ outbox' = [outbox EXCEPT ![i][c] =
                    IF sendOk THEN Append(@, Stamp(NodeName(i), msg)) ELSE @]
    /\ lastSend' = [lastSend EXCEPT ![i][c] =
                      [msg |-> Stamp(NodeName(i), msg), ok |-> sendOk]]

\* respondTransferError with the wrong Operation.
respondTransferErrorAsAck(errMsg) ==
    Msg(OperationTransferAcknowledge, <<>>)

\* respondTransferError: the message it sends.
respondTransferError(errMsg) ==
    Msg(OperationTransferFailed, errMsg)

\* jobTransferCallback without the check of len(msg.Data).
jobTransferNoEmptyCheck(msg, env) ==
    IF env = "mkdirErr"
    THEN [reply |-> respondTransferError(MkdirErrText),
          mkdir |-> FALSE, save |-> FALSE, saved |-> FALSE]
    ELSE IF env = "saveErr"
    THEN [reply |-> respondTransferError(SaveErrText),
          mkdir |-> TRUE, save |-> TRUE, saved |-> FALSE]
    ELSE [reply |-> Msg(OperationTransferAcknowledge, <<>>),
          mkdir |-> TRUE, save |-> TRUE, saved |-> TRUE]

\* jobTransferCallback without the check of the error of saveBinary.
jobTransferIgnoreSaveError(msg, env) ==
    IF env = "mkdirErr"
    THEN [reply |-> respondTransferError(MkdirErrText),
          mkdir |-> FALSE, save |-> FALSE, saved |-> FALSE]
    ELSE IF msg.Data = <<>>
    THEN [reply |-> respondTransferError(<<"empty data field">>),
          mkdir |-> TRUE, save |-> FALSE, saved |-> FALSE]
    ELSE [reply |-> Msg(OperationTransferAcknowledge, <<>>),
          mkdir |-> TRUE, save |-> TRUE, saved |-> env # "saveErr"]

\* jobTransferCallback, by its branches: the reply it sends, whether the folder
\* exists afterwards, whether saveBinary is called and whether it succeeds.
jobTransferOutcome(msg, env) ==
    IF env = "mkdirErr"
    THEN [reply |-> respondTransferError(MkdirErrText),
          mkdir |-> FALSE, save |-> FALSE, saved |-> FALSE]
    ELSE IF msg.Data = <<>>
    THEN [reply |-> respondTransferError(<<"empty data field">>),
          mkdir |-> TRUE, save |-> FALSE, saved |-> FALSE]
    ELSE IF env = "saveErr"
    THEN [reply |-> respondTransferError(SaveErrText),
          mkdir |-> TRUE, save |-> TRUE, saved |-> FALSE]
    ELSE [reply |-> Msg(OperationTransferAcknowledge, <<>>),
          mkdir |-> TRUE, save |-> TRUE, saved |-> TRUE]

\* jobTransferCallback without the return after the empty data reply: it goes on
\* to saveBinary and sends a second reply.
jobTransferCallbackNoReturn(i, c) ==
    /\ HandlerReady(i, c)
    /\ Head(inbox[i][c]).Operation = OperationJobTransfer
    /\ \E env \in TransferEnvs, sendOk \in BOOLEAN :
         LET msg == Head(inbox[i][c])
             o == jobTransferOutcome(msg, env)
             o2 == jobTransferNoEmptyCheck(msg, env)
             fall == env # "mkdirErr" /\ msg.Data = <<>>
             first == Stamp(NodeName(i), o.reply)
             second == Stamp(NodeName(i), o2.reply)
             kind(r) == IF r.Operation = OperationTransferAcknowledge
                        THEN "sendAck" ELSE "sendFailed"
         IN  /\ jobBin' = [jobBin EXCEPT ![i] =
                   [dir |-> @.dir \/ o2.mkdir,
                    exists |-> @.exists \/ o2.saved,
                    data |-> IF o2.saved THEN msg.Data ELSE @.data,
                    writes |-> IF o2.save THEN @.writes + 1 ELSE @.writes]]
             /\ outbox' = [outbox EXCEPT ![i][c] =
                   IF ~sendOk THEN @
                   ELSE IF fall THEN @ \o <<first, second>> ELSE Append(@, first)]
             /\ lastSend' = [lastSend EXCEPT ![i][c] =
                   [msg |-> IF fall THEN second ELSE first, ok |-> sendOk]]
             /\ tally' = [tally EXCEPT ![i][c] =
                   IF fall
                   THEN Bump(Bump(@, {"recvTransfer", kind(o.reply)}), {kind(o2.reply)})
                   ELSE Bump(@, {"recvTransfer", kind(o.reply)})]
    /\ Take(i, c)
    /\ UNCHANGED <<status, running, lastMade, injected, regVars, reqVars>>

jobTransferCallback(i, c) ==
    /\ HandlerReady(i, c)
    /\ Head(inbox[i][c]).Operation = OperationJobTransfer
    /\ \E env \in TransferEnvs, sendOk \in BOOLEAN :
         LET msg == Head(inbox[i][c])
             o == jobTransferOutcome(msg, env)
         IN  /\ jobBin' = [jobBin EXCEPT ![i] =
                   [dir |-> @.dir \/ o.mkdir,
                    exists |-> @.exists \/ o.saved,
                    data |-> IF o.saved THEN msg.Data ELSE @.data,
                    writes |-> IF o.save THEN @.writes + 1 ELSE @.writes]]
             /\ NodeSend(i, c, o.reply, sendOk)
             /\ Count(i, c, {"recvTransfer",
                              IF o.reply.Operation = OperationTransferAcknowledge
                              THEN "sendAck" ELSE "sendFailed"})
    /\ Take(i, c)
    /\ UNCHANGED <<status, running, lastMade, injected, regVars, reqVars>>

\* runLocalJob(task): its two return values.
runLocalJob(task, env) ==
    IF env = "jobErr"
    THEN [res |-> ZeroResult, err |-> Err(JobErrText)]
    ELSE [res |-> [UUID |-> task.UUID, Error |-> <<>>], err |-> NilErr]

\* jobExecuteCallback without the err != nil branch.
jobExecuteResultDropError(task, env) ==
    runLocalJob(task, env).res

\* jobExecuteCallback: the Result it builds from what runLocalJob returned.
jobExecuteResult(task, env) ==
    LET r == runLocalJob(task, env) IN
    IF ~r.err.nil
    THEN [UUID |-> task.UUID, Error |-> <<"Unable to run job: ">> \o r.err.text]
    ELSE r.res

\* jobExecuteCallback: s.Status after runLocalJob has returned.
statusAfterJob(before) == StatusIDLE

\* jobExecuteCallback with s.Status = StatusWorking placed before the decoding
\* of the task.
jobExecuteBeginStatusFirst(i, c) ==
    /\ HandlerReady(i, c)
    /\ Head(inbox[i][c]).Operation = OperationJobExecute
    /\ status' = [status EXCEPT ![i] = StatusWorking]
    /\ LET msg == Head(inbox[i][c])
           d == decodeTask(msg.Data)
       IN  IF ~d.err.nil
           THEN /\ Count(i, c, {"recvExecute"})
                /\ UNCHANGED running
           ELSE /\ Count(i, c, {"recvExecute", "started"})
                /\ running' = [running EXCEPT ![i][c] =
                                 [active |-> TRUE, task |-> d.task]]
    /\ Take(i, c)
    /\ UNCHANGED <<jobBin, outbox, lastSend, lastMade, injected, regVars, reqVars>>

\* jobExecuteCallback up to the call of runLocalJob: the task is decoded and
\* Status is set; an undecodable payload ends the handler with no reply.
jobExecuteBegin(i, c) ==
    /\ HandlerReady(i, c)
    /\ Head(inbox[i][c]).Operation = OperationJobExecute
    /\ LET msg == Head(inbox[i][c])
           d == decodeTask(msg.Data)
       IN  IF ~d.err.nil
           THEN /\ Count(i, c, {"recvExecute"})
                /\ UNCHANGED <<status, running>>
           ELSE /\ Count(i, c, {"recvExecute", "started"})
                /\ status' = [status EXCEPT ![i] = StatusWorking]
                /\ running' = [running EXCEPT ![i][c] =
                                 [active |-> TRUE, task |-> d.task]]
    /\ Take(i, c)
    /\ UNCHANGED <<jobBin, outbox, lastSend, lastMade, injected, regVars, reqVars>>

\* jobExecuteCallback from the return of runLocalJob to its end.
jobExecuteEnd(i, c) ==
    /\ running[i][c].active
    /\ \E env \in JobEnvs, encOk \in BOOLEAN, sendOk \in BOOLEAN :
         LET res == jobExecuteResult(running[i][c].task, env)
             reply == Msg(OperationJobResult, encodeResult(res))
         IN  /\ status' = [status EXCEPT ![i] = statusAfterJob(@)]
             /\ running' = [running EXCEPT ![i][c] = NoJob]
             /\ lastMade' = [lastMade EXCEPT ![i][c] =
                               [res |-> res, task |-> running[i][c].task, env |-> env]]
             /\ IF encOk
                THEN /\ NodeSend(i, c, reply, sendOk)
                     /\ Count(i, c, {"made", "sendResult"})
                ELSE /\ Count(i, c, {"made"})
                     /\ UNCHANGED <<outbox, lastSend>>
    /\ UNCHANGED <<jobBin, inbox, injected, regVars, reqVars>>

\* What cpu.Percent and getCPUTemp report.
NodeInfoSamples ==
    {[OS |-> <<>>, Usage |-> 0, CPUTemp |-> 0],
     [OS |-> <<>>, Usage |-> 37, CPUTemp |-> 45]}

\* statusCallback that reports the node as Idle and makes it so.
statusCallbackSetsIdle(i, c) ==
    /\ HandlerReady(i, c)
    /\ Head(inbox[i][c]).Operation = OperationStatus
    /\ \E ni \in NodeInfoSamples, sendOk \in BOOLEAN :
         LET reply == [Msg(OperationUnset, <<>>) EXCEPT !.NodeInfo = ni]
         IN  NodeSend(i, c, reply, sendOk)
    /\ status' = [status EXCEPT ![i] = StatusIDLE]
    /\ Count(i, c, IF status[i] = StatusWorking
                   THEN {"recvStatus", "recvStatusWorking"} ELSE {"recvStatus"})
    /\ Take(i, c)
    /\ UNCHANGED <<jobBin, running, lastMade, injected, regVars, reqVars>>

statusCallback(i, c) ==
    /\ HandlerReady(i, c)
    /\ Head(inbox[i][c]).Operation = OperationStatus
    /\ \E ni \in NodeInfoSamples, sendOk \in BOOLEAN :
         LET msg == Head(inbox[i][c])
             reply == [Msg(OperationUnset, <<>>) EXCEPT !.NodeInfo = ni]
         IN  NodeSend(i, c, reply, sendOk)
    /\ Count(i, c, IF status[i] = StatusWorking
                   THEN {"recvStatus", "recvStatusWorking"} ELSE {"recvStatus"})
    /\ Take(i, c)
    /\ UNCHANGED <<status, jobBin, running, lastMade, injected, regVars, reqVars>>

\* jobResultCallback and transferStatusCallback: nothing but the return.
replyCallback(i, c) ==
    /\ HandlerReady(i, c)
    /\ Head(inbox[i][c]).Operation \in
          {OperationJobResult, OperationTransferAcknowledge, OperationTransferFailed}
    /\ Take(i, c)
    /\ UNCHANGED <<status, jobBin, outbox, running, tally, lastSend, lastMade, injected,
                   regVars, reqVars>>

\* The messages a peer may send to a node.
PeerMessages ==
    {Msg(OperationStatus, <<>>),
     Msg(OperationJobTransfer, <<>>),
     Msg(OperationJobTransfer, JobBinary),
     Msg(OperationJobExecute, encodeTask([UUID |-> "u1"])),
     Msg(OperationJobExecute, <<"junk">>),
     Msg(OperationTransferAcknowledge, <<>>)}

\* A peer sends a message to the node under test.
Inject(c, msg) ==
    /\ injected < MaxInject
    /\ injected' = injected + 1
    /\ inbox' = [inbox EXCEPT ![TestNode][c] = Append(@, Stamp(<<"peer">>, msg))]
    /\ UNCHANGED <<status, jobBin, outbox, running, tally, lastSend, lastMade,
                   regVars, reqVars>>

NodeInit ==
    /\ status = [i \in NodeIds |-> StatusIDLE]
    /\ jobBin = [i \in NodeIds |->
                   [dir |-> FALSE, exists |-> FALSE, data |-> <<>>, writes |-> 0]]
    /\ inbox = [i \in NodeIds |-> [c \in Conns |-> <<>>]]
    /\ outbox = [i \in NodeIds |-> [c \in Conns |-> <<>>]]
    /\ running = [i \in NodeIds |-> [c \in Conns |-> NoJob]]
    /\ tally = [i \in NodeIds |-> [c \in Conns |-> NoTally]]
    /\ lastSend = [i \in NodeIds |-> [c \in Conns |->
                      [msg |-> Msg(OperationUnset, <<>>), ok |-> FALSE]]]
    /\ lastMade = [i \in NodeIds |-> [c \in Conns |->
                      [res |-> ZeroResult, task |-> ZeroTask, env |-> "ok"]]]
    /\ injected = 0

NoExecTally ==
    [sendTransfer |-> 0, recvAck |-> 0, recvFailed |-> 0, sendExecute |-> 0,
     recvResult |-> 0]

ReqInit ==
    /\ mpc = "idle"
    /\ margs = [n |-> {}, t |-> ZeroTask, bin |-> <<>>, deadline |-> FALSE]
    /\ results = <<>>
    /\ ret = [results |-> <<>>, err |-> NilErr]
    /\ wpc = [i \in NodeIds |-> "none"]
    /\ wret = [i \in NodeIds |-> [res |-> ZeroResult, err |-> NilErr]]
    /\ etally = [i \in NodeIds |-> NoExecTally]

LockInit ==
    /\ nodesLock = 0
    /\ callers = <<>>

Init == RegInit /\ PureInit /\ LockInit /\ NodeInit /\ ReqInit

SortInit ==
    /\ RegInit /\ LockInit /\ NodeInit /\ ReqInit
    /\ sortIn \in SortInputs
    /\ sortOut = [build |-> "none", n |-> <<>>]
    /\ eqIn = <<ZeroNode, ZeroNode>>
    /\ eqOut = "none"

SortNext == \E build \in SortBuilds : Sort(build)

SpecSort == SortInit /\ [][SortNext]_vars

\* Nodes of every IP, with two ports and two sets of the other fields.
EqualsNodes ==
    {[MkNode(ip, v) EXCEPT !.Addr.Port = port] :
        ip \in IPs, v \in {1, 2}, port \in {2020, 2021}}

EqualsInit ==
    /\ RegInit /\ LockInit /\ NodeInit /\ ReqInit
    /\ sortIn = <<>>
    /\ sortOut = [build |-> "none", n |-> <<>>]
    /\ eqIn \in EqualsNodes \X EqualsNodes
    /\ eqOut = "none"

SpecEquals == EqualsInit /\ [][EqualsCall]_vars

-----------------------------------------------------------------------------
(* updateNode called from several goroutines *)

\* The nodes the goroutines upsert.
LockNodes == {MkNode(ip, v) : ip \in {IPa4, IPa16, IPb4}, v \in {1, 2}}

Callers == 1..NumCallers

\* A mutex that never blocks.
lockFreeAlways(lock) == TRUE

\* s.nodesLock.Lock() goes on when no goroutine holds the mutex; the mutex holds
\* the number of its holder, 0 when free.
lockFree(lock) == lock = 0

\* Goroutine p calls s.updateNode(node2).
updateNodeCall(p, node2) ==
    /\ callers[p].pc = "idle"
    /\ callers' = [callers EXCEPT ![p] = [pc |-> "lock", node |-> node2, i |-> 0]]
    /\ UNCHANGED <<nodes, upserted, regOp, found, nodesLock, pureVars, nodeVars, reqVars>>

\* s.nodesLock.Lock() returns in goroutine p.
updateNodeLock(p) ==
    /\ callers[p].pc = "lock"
    /\ lockFree(nodesLock)
    /\ nodesLock' = p
    /\ callers' = [callers EXCEPT ![p].pc = "scan", ![p].i = 1]
    /\ UNCHANGED <<nodes, upserted, regOp, found, pureVars, nodeVars, reqVars>>

\* One turn of the loop over s.nodes in goroutine p, or the append after it;
\* the entry is replaced, or appended, with what s.nodes holds at this moment.
updateNodeScan(p) ==
    /\ callers[p].pc = "scan"
    /\ LET i == callers[p].i
           node2 == callers[p].node
       IN  IF i > Len(nodes)
           THEN /\ nodes' = Append(nodes, node2)
                /\ callers' = [callers EXCEPT ![p].pc = "unlock"]
           ELSE IF IPEqual(nodes[i].Addr.IP, node2.Addr.IP)
           THEN /\ nodes' = [nodes EXCEPT ![i] = node2]
                /\ callers' = [callers EXCEPT ![p].pc = "unlock"]
           ELSE /\ callers' = [callers EXCEPT ![p].i = i + 1]
                /\ UNCHANGED nodes
    /\ UNCHANGED <<upserted, regOp, found, nodesLock, pureVars, nodeVars, reqVars>>

\* The deferred s.nodesLock.Unlock() of goroutine p.
updateNodeUnlock(p) ==
    /\ callers[p].pc = "unlock"
    /\ nodesLock' = 0
    /\ callers' = [callers EXCEPT ![p].pc = "done"]
    /\ UNCHANGED <<nodes, upserted, regOp, found, pureVars, nodeVars, reqVars>>

LockCallInit ==
    /\ RegInit /\ PureInit /\ NodeInit /\ ReqInit
    /\ nodesLock = 0
    /\ callers = [p \in Callers |-> [pc |-> "idle", node |-> ZeroNode, i |-> 0]]

LockNext ==
    \/ \E p \in Callers, node2 \in LockNodes : updateNodeCall(p, node2)
    \/ \E p \in Callers : updateNodeLock(p)
    \/ \E p \in Callers : updateNodeScan(p)
    \/ \E p \in Callers : updateNodeUnlock(p)

SpecLock == LockCallInit /\ [][LockNext]_vars

NodeNext ==
    \/ \E c \in Conns : jobTransferCallback(TestNode, c)
    \/ \E c \in Conns : jobExecuteBegin(TestNode, c)
    \/ \E c \in Conns : jobExecuteEnd(TestNode, c)
    \/ \E c \in Conns : statusCallback(TestNode, c)
    \/ \E c \in Conns : replyCallback(TestNode, c)
    \/ \E c \in Conns, msg \in PeerMessages : Inject(c, msg)

SpecRegistry == Init /\ [][RegNext]_vars

SpecNode == Init /\ [][NodeNext]_vars

-----------------------------------------------------------------------------
(* The requester process: Execute and ExecuteMany *)

TransportErrText == <<"write: broken pipe">>
TimeoutErrText == <<"timeout">>
UnexpectedErrText == <<"unexpected operation">>

\* The ways a blocking receive of Execute fails: the connection breaks, or the
\* deadline passes when one was given.
ReceiveFailures(deadline) ==
    IF deadline THEN {TransportErrText, TimeoutErrText} ELSE {TransportErrText}

\* Execute returns (res, err) to the goroutine started for node i, which goes
\* on to send on one of the two channels.
ExecuteReturn(i, res, err) ==
    /\ wret' = [wret EXCEPT ![i] = [res |-> res, err |-> err]]
    /\ wpc' = [wpc EXCEPT ![i] = "send"]

ReqSend(i, msg) ==
    inbox' = [inbox EXCEPT ![i]["req"] = Append(@, Stamp(RequesterName, msg))]

ECount(i, fs) == etally' = [etally EXCEPT ![i] = Bump(@, fs)]

\* Execute, step 1: send JobTransfer with the job binary.
ExecuteTransfer(i) ==
    /\ wpc[i] = "start"
    /\ \E sendOk \in BOOLEAN :
         IF sendOk
         THEN /\ ReqSend(i, Msg(OperationJobTransfer, margs.bin))
              /\ wpc' = [wpc EXCEPT ![i] = "waitAck"]
              /\ ECount(i, {"sendTransfer"})
              /\ UNCHANGED wret
         ELSE /\ ExecuteReturn(i, ZeroResult, Err(TransportErrText))
              /\ UNCHANGED <<inbox, etally>>
    /\ UNCHANGED <<mpc, margs, results, ret, outbox, status, jobBin, running, tally,
                   lastSend, lastMade, injected, regVars>>

\* Execute, steps 2 and 3: the reply to JobTransfer has arrived;
\* TransferAcknowledge is followed by JobExecute, TransferFailed ends Execute
\* with the error text of the node.
ExecuteOnTransferReply(i) ==
    /\ wpc[i] = "waitAck"
    /\ outbox[i]["req"] # <<>>
    /\ outbox' = [outbox EXCEPT ![i]["req"] = Tail(@)]
    /\ \E sendOk \in BOOLEAN :
         LET msg == Head(outbox[i]["req"]) IN
         IF msg.Operation = OperationTransferAcknowledge
         THEN IF sendOk
              THEN /\ ReqSend(i, Msg(OperationJobExecute, encodeTask(margs.t)))
                   /\ wpc' = [wpc EXCEPT ![i] = "waitResult"]
                   /\ ECount(i, {"recvAck", "sendExecute"})
                   /\ UNCHANGED wret
              ELSE /\ ExecuteReturn(i, ZeroResult, Err(TransportErrText))
                   /\ ECount(i, {"recvAck"})
                   /\ UNCHANGED inbox
         ELSE IF msg.Operation = OperationTransferFailed
         THEN /\ ExecuteReturn(i, ZeroResult, Err(msg.Data))
              /\ ECount(i, {"recvFailed"})
              /\ UNCHANGED inbox
         ELSE /\ ExecuteReturn(i, ZeroResult, Err(UnexpectedErrText))
              /\ UNCHANGED <<inbox, etally>>
    /\ UNCHANGED <<mpc, margs, results, ret, status, jobBin, running, tally,
                   lastSend, lastMade, injected, regVars>>

\* Execute, step 4: the JobResult has arrived and is decoded; a Result with a
\* non-empty Error is returned with a nil error.
ExecuteOnResult(i) ==
    /\ wpc[i] = "waitResult"
    /\ outbox[i]["req"] # <<>>
    /\ outbox' = [outbox EXCEPT ![i]["req"] = Tail(@)]
    /\ LET msg == Head(outbox[i]["req"])
           d == decodeResult(msg.Data)
       IN  IF msg.Operation = OperationJobResult
           THEN /\ ExecuteReturn(i, d.res, d.err)
                /\ ECount(i, {"recvResult"})
           ELSE /\ ExecuteReturn(i, ZeroResult, Err(UnexpectedErrText))
                /\ UNCHANGED etally
    /\ UNCHANGED <<mpc, margs, results, ret, inbox, status, jobBin, running, tally,
                   lastSend, lastMade, injected, regVars>>

\* Execute, step 5: a blocking receive fails.
ExecuteReceiveFails(i) ==
    /\ wpc[i] \in {"waitAck", "waitResult"}
    /\ \E text \in ReceiveFailures(margs.deadline) :
         ExecuteReturn(i, ZeroResult, Err(text))
    /\ UNCHANGED <<mpc, margs, results, ret, etally, nodeVars, regVars>>

\* The error the goroutine of a node sends on errChan.
workerError(name, err) ==
    Err(<<"node ">> \o name \o <<" error: ">> \o err.text)

\* The loop condition, one result short.
loopContinuesOffByOne(res, n) == Len(res) + 1 # Cardinality(n)

\* ExecuteMany: the loop condition len(results) != len(n).
loopContinues(res, n) == Len(res) # Cardinality(n)

\* Returning the results collected so far with the error.
onErrorPartial(res, err) == [results |-> res, err |-> err]

\* ExecuteMany: what it returns when an error arrives on errChan.
onError(res, err) == [results |-> <<>>, err |-> err]

\* ExecuteMany is called: the channels are made and one goroutine per node of n
\* is started.
ExecuteManyCall(n, t, bin, deadline) ==
    /\ mpc = "idle"
    /\ mpc' = "loop"
    /\ margs' = [n |-> n, t |-> t, bin |-> bin, deadline |-> deadline]
    /\ results' = <<>>
    /\ wpc' = [i \in NodeIds |-> IF i \in n THEN "start" ELSE "none"]
    /\ UNCHANGED <<ret, wret, etally, nodeVars, regVars>>

\* The goroutine of a node sending on errChan also when the Result it got
\* carries an Error.
ExecuteManyRecvErrOnJobError(i) ==
    /\ mpc = "loop"
    /\ loopContinues(results, margs.n)
    /\ wpc[i] = "send"
    /\ ~wret[i].err.nil \/ wret[i].res.Error # <<>>
    /\ ret' = onError(results, workerError(NodeName(i),
                 IF wret[i].err.nil THEN Err(wret[i].res.Error) ELSE wret[i].err))
    /\ mpc' = "returned"
    /\ wpc' = [wpc EXCEPT ![i] = "done"]
    /\ UNCHANGED <<margs, results, wret, etally, nodeVars, regVars>>

\* case err := <-errChan: the goroutine of node i hands over its error.
ExecuteManyRecvErr(i) ==
    /\ mpc = "loop"
    /\ loopContinues(results, margs.n)
    /\ wpc[i] = "send"
    /\ ~wret[i].err.nil
    /\ ret' = onError(results, workerError(NodeName(i), wret[i].err))
    /\ mpc' = "returned"
    /\ wpc' = [wpc EXCEPT ![i] = "done"]
    /\ UNCHANGED <<margs, results, wret, etally, nodeVars, regVars>>

\* The receiving loop dropping the Result it has received.
ExecuteManyRecvResDropped(i) ==
    /\ mpc = "loop"
    /\ loopContinues(results, margs.n)
    /\ wpc[i] = "send"
    /\ wret[i].err.nil
    /\ wpc' = [wpc EXCEPT ![i] = "done"]
    /\ UNCHANGED <<mpc, margs, results, ret, wret, etally, nodeVars, regVars>>

\* The hand-over of a Result on a channel with a buffer: the send of the
\* goroutine completes whether or not ExecuteMany is still receiving.
ExecuteManyRecvResBuffered(i) ==
    /\ wpc[i] = "send"
    /\ wret[i].err.nil
    /\ results' = IF mpc = "loop" /\ loopContinues(results, margs.n)
                  THEN Append(results, wret[i].res) ELSE results
    /\ wpc' = [wpc EXCEPT ![i] = "done"]
    /\ UNCHANGED <<mpc, margs, ret, wret, etally, nodeVars, regVars>>

\* case res := <-resultsChan: the goroutine of node i hands over its Result.
ExecuteManyRecvRes(i) ==
    /\ mpc = "loop"
    /\ loopContinues(results, margs.n)
    /\ wpc[i] = "send"
    /\ wret[i].err.nil
    /\ results' = Append(results, wret[i].res)
    /\ wpc' = [wpc EXCEPT ![i] = "done"]
    /\ UNCHANGED <<mpc, margs, ret, wret, etally, nodeVars, regVars>>

\* The loop ends: return results, nil.
ExecuteManyReturn ==
    /\ mpc = "loop"
    /\ ~loopContinues(results, margs.n)
    /\ mpc' = "returned"
    /\ ret' = [results |-> results, err |-> NilErr]
    /\ UNCHANGED <<margs, results, wpc, wret, etally, nodeVars, regVars>>

DispatchNext ==
    \/ \E n \in SUBSET NodeIds, u \in TaskUUIDs, bin \in {<<>>, JobBinary},
          deadline \in BOOLEAN :
          ExecuteManyCall(n, [UUID |-> u], bin, deadline)
    \/ \E i \in NodeIds : ExecuteTransfer(i)
    \/ \E i \in NodeIds : ExecuteOnTransferReply(i)
    \/ \E i \in NodeIds : ExecuteOnResult(i)
    \/ \E i \in NodeIds : ExecuteReceiveFails(i)
    \/ \E i \in NodeIds : ExecuteManyRecvErr(i)
    \/ \E i \in NodeIds : ExecuteManyRecvRes(i)
    \/ ExecuteManyReturn
    \/ \E i \in NodeIds : jobTransferCallback(i, "req")
    \/ \E i \in NodeIds : jobExecuteBegin(i, "req")
    \/ \E i \in NodeIds : jobExecuteEnd(i, "req")

SpecDispatch == Init /\ [][DispatchNext]_vars

\* The loop of ExecuteMany is a goroutine the scheduler runs: a receive that
\* stays possible is made, and the return after the loop is reached. Nothing is
\* assumed of the invocations of Execute or of the nodes.
ExecuteManyFairness ==
    /\ \A i \in NodeIds : WF_vars(ExecuteManyRecvErr(i))
    /\ \A i \in NodeIds : WF_vars(ExecuteManyRecvRes(i))
    /\ WF_vars(ExecuteManyReturn)

\* What one invocation of Execute hands back to its goroutine: a Result, of a
\* job that ran or of one that failed, with a nil error, or an error.
ExecuteOutcomes(t, deadline) ==
    {[res |-> [UUID |-> t.UUID, Error |-> e], err |-> NilErr] :
        e \in {<<>>, <<"Unable to run job: ">> \o JobErrText}}
    \cup {[res |-> ZeroResult, err |-> Err(x)] :
            x \in ReceiveFailures(deadline) \cup {<<"empty data field">>}}

\* res, err := s.Execute(...) in the goroutine of node i, taken as one step;
\* an invocation that never returns never takes it.
ExecuteCompletes(i) ==
    /\ wpc[i] = "start"
    /\ \E o \in ExecuteOutcomes(margs.t, margs.deadline) : ExecuteReturn(i, o.res, o.err)
    /\ UNCHANGED <<mpc, margs, results, ret, etally, nodeVars, regVars>>

FanOutNext ==
    \/ \E n \in SUBSET NodeIds, u \in TaskUUIDs, bin \in {<<>>, JobBinary},
          deadline \in BOOLEAN :
          ExecuteManyCall(n, [UUID |-> u], bin, deadline)
    \/ \E i \in NodeIds : ExecuteCompletes(i)
    \/ \E i \in NodeIds : ExecuteManyRecvErr(i)
    \/ \E i \in NodeIds : ExecuteManyRecvRes(i)
    \/ ExecuteManyReturn

\* ExecuteMany and its goroutines, with the loop of ExecuteMany scheduled.
SpecFanOut == Init /\ [][FanOutNext]_vars /\ ExecuteManyFairness

-----------------------------------------------------------------------------
(* Registry properties *)

\* The 16-byte form of an address: two addresses are the same IP exactly when
\* their 16-byte forms are the same bytes.
To16(ip) == IF Len(ip) = IPv4len THEN v4InV6Prefix \o ip ELSE ip

SameIP(a, b) == To16(a) = To16(b)

Present(n, ip) == \E i \in 1..Len(n) : SameIP(n[i].Addr.IP, ip)

\* The last element of the history h with the IP ip, ZeroNode when there is none.
LastUpserted(h, ip) ==
    LET S == {i \in 1..Len(h) : SameIP(h[i].Addr.IP, ip)} IN
    IF S = {} THEN ZeroNode
    ELSE h[CHOOSE i \in S : \A j \in S : j <= i]

IsUpdateStep == upserted' # upserted

\* C1: after any sequence of updateNode calls from the empty registry, no two
\* entries at different positions have the same IP.
C1_OneEntryPerIP ==
    \A i, j \in 1..Len(nodes) :
        i # j => ~SameIP(nodes[i].Addr.IP, nodes[j].Addr.IP)

\* C1 witness: a second call for an IP already present (in its other byte form)
\* has been made and the registry holds two entries.
C1_Witness ==
    /\ Len(upserted) >= 3
    /\ Len(nodes) = 2
    /\ \E i, j \in 1..Len(upserted) :
          i < j /\ upserted[i].Addr.IP = IPa4 /\ upserted[j].Addr.IP = IPa16

\* C2: updateNode(node2) for an IP already present puts node2, with all its
\* fields, at the index of that entry and leaves the length and every other
\* entry where it was.
C2_ReplaceInPlace ==
    [][(IsUpdateStep /\ Present(nodes, regOp'.node.Addr.IP)) =>
          /\ Len(nodes') = Len(nodes)
          /\ \E i \in 1..Len(nodes) :
                /\ SameIP(nodes[i].Addr.IP, regOp'.node.Addr.IP)
                /\ nodes'[i] = regOp'.node
                /\ \A j \in 1..Len(nodes) : j # i => nodes'[j] = nodes[j]]_vars

\* C2 witness: the last call replaced the first of two entries by a node that
\* differs from the one it replaced.
C2_Witness ==
    /\ regOp.op = "updateNode"
    /\ Len(nodes) = 2
    /\ Len(upserted) = 3
    /\ nodes[1] = upserted[3]
    /\ upserted[1] # upserted[3]
    /\ nodes[2] = upserted[2]

\* C9: find(ip) returns the zero-value Node when no node with that IP was ever
\* upserted, and otherwise the node most recently upserted for that IP.
C9_FindReturnsLastUpserted ==
    regOp.op = "find" => found = LastUpserted(upserted, regOp.addr)

\* C9 witness: a find returned a node that was upserted over an older one of
\* the same IP, and (second predicate) a find of an absent IP returned ZeroNode.
C9_Witness ==
    /\ regOp.op = "find"
    /\ Len(upserted) >= 3
    /\ found # ZeroNode
    /\ \E i, j \in 1..Len(upserted) :
          /\ i < j
          /\ SameIP(upserted[i].Addr.IP, regOp.addr)
          /\ found = upserted[j]
          /\ upserted[i] # upserted[j]

C9_WitnessAbsent ==
    /\ regOp.op = "find"
    /\ upserted # <<>>
    /\ found = ZeroNode

ScenarioA == MkNode(IPa4, 1)
ScenarioB == MkNode(IPa4, 2)
ScenarioC == MkNode(IPb4, 1)

\* C10: updateNode(node2) for an IP not present appends node2 as the last entry
\* and leaves the existing entries as they were; upserting A(10.0.0.1, Idle),
\* B(10.0.0.1, Working), C(10.0.0.2) yields exactly [B, C].
C10_AppendWhenAbsent ==
    /\ [][(IsUpdateStep /\ ~Present(nodes, regOp'.node.Addr.IP)) =>
            nodes' = Append(nodes, regOp'.node)]_vars
    /\ [](upserted = <<ScenarioA, ScenarioB, ScenarioC>> =>
            /\ nodes = <<ScenarioB, ScenarioC>>
            /\ nodes[1].Status = StatusWorking)

\* C10 witness: the scenario's three calls have been made.
C10_Witness ==
    /\ upserted = <<ScenarioA, ScenarioB, ScenarioC>>
    /\ regOp.op = "updateNode"
    /\ Len(nodes) = 2

-----------------------------------------------------------------------------
(* Dispatch properties *)

\* Execute for node i has returned.
Finished(i) == wpc[i] \in {"send", "done"}

Succeeded(i) == Finished(i) /\ wret[i].err.nil

Failed(i) == Finished(i) /\ ~wret[i].err.nil

\* The chunks of t occur in e, in a row.
Contains(e, t) ==
    \E k \in 0..(Len(e) - Len(t)) : SubSeq(e, k + 1, k + Len(t)) = t

\* C3: ExecuteMany over N nodes whose Execute invocations all succeed returns no
\* error and exactly N results, one handed over by each invocation, each with
\* the UUID of the submitted Task.
C3_FanOutSuccess ==
    (mpc = "returned" /\ \A i \in margs.n : Succeeded(i)) =>
        /\ ret.err.nil
        /\ Len(ret.results) = Cardinality(margs.n)
        /\ \A i \in margs.n : wpc[i] = "done"
        /\ \A k \in 1..Len(ret.results) : ret.results[k].UUID = margs.t.UUID

\* C3 witness: a fan-out over all the nodes has returned all their results.
C3_Witness ==
    /\ mpc = "returned"
    /\ margs.n = NodeIds
    /\ \A i \in margs.n : Succeeded(i)
    /\ Len(ret.results) = NumNodes

C3_WitnessEmpty ==
    /\ mpc = "returned"
    /\ margs.n = {}

IsTransportError(err) == err.text \in {TransportErrText, TimeoutErrText}

\* Every invocation has returned, and node i's is the only one with an error,
\* a transport error.
OnlyFailure(i) ==
    /\ i \in margs.n
    /\ \A j \in margs.n : Finished(j)
    /\ Failed(i)
    /\ IsTransportError(wret[i].err)
    /\ \A j \in margs.n \ {i} : Succeeded(j)

\* C4: when exactly one Execute invocation returns a transport error,
\* ExecuteMany returns that node's error and nil results, whatever number of
\* siblings handed over a Result before; it never returns results.
C4_FanOutFailure ==
    \A i \in NodeIds :
        OnlyFailure(i) =>
            /\ mpc = "returned" =>
                 /\ ret.results = <<>>
                 /\ ret.err = workerError(NodeName(i), wret[i].err)
                 /\ Contains(ret.err.text, NodeName(i))
                 /\ Contains(ret.err.text, wret[i].err.text)
            /\ mpc = "loop" => wpc[i] = "send" /\ Len(results) < Cardinality(margs.n)

\* C4 witness: the error arrived after a sibling had handed over its Result.
C4_Witness ==
    \E i \in NodeIds :
        /\ OnlyFailure(i)
        /\ mpc = "returned"
        /\ wpc[i] = "done"
        /\ \E j \in margs.n \ {i} : wpc[j] = "done"

\* The transfer handler of node i has run for the requester and has not saved
\* the binary.
TransferFailedAt(i) ==
    tally[i]["req"].recvTransfer > 0 /\ ~jobBin[i].exists

\* C5: Execute against a node that replies TransferFailed with an error text
\* returns an error containing that text and never sends JobExecute; a node
\* whose transfer fails is never sent JobExecute.
C5_TransferFailedStopsExecute ==
    \A i \in NodeIds :
        /\ etally[i].recvFailed > 0 =>
             /\ Failed(i)
             /\ lastSend[i]["req"].msg.Operation = OperationTransferFailed
             /\ lastSend[i]["req"].msg.Data # <<>>
             /\ Contains(wret[i].err.text, lastSend[i]["req"].msg.Data)
             /\ etally[i].sendExecute = 0
             /\ tally[i]["req"].recvExecute = 0
        /\ TransferFailedAt(i) =>
             /\ etally[i].sendExecute = 0
             /\ inbox[i]["req"] = <<>>

\* C5 witness: a node replied TransferFailed{"disk full"} and Execute returned.
C5_Witness ==
    \E i \in NodeIds :
        /\ etally[i].recvFailed > 0
        /\ lastSend[i]["req"].msg.Data = <<"disk full">>
        /\ Finished(i)
        /\ jobBin[i].writes = 1

\* C8: on the connection of one node the events are ordered: JobExecute is sent
\* only after TransferAcknowledge was received for the JobTransfer, a Result is
\* made only after the JobExecute was received, and the node sends no
\* TransferAcknowledge, TransferFailed or JobResult without a request before it.
C8_ProtocolOrder ==
    \A i \in NodeIds :
        LET e == etally[i]
            t == tally[i]["req"]
        IN  /\ e.sendExecute <= e.recvAck
            /\ e.recvAck + e.recvFailed <= t.sendAck + t.sendFailed
            /\ e.recvAck <= t.sendAck
            /\ t.sendAck + t.sendFailed <= t.recvTransfer
            /\ t.recvTransfer <= e.sendTransfer
            /\ t.recvExecute <= e.sendExecute
            /\ t.started <= t.recvExecute
            /\ t.made <= t.started
            /\ t.sendResult <= t.made
            /\ e.recvResult <= t.sendResult
            /\ e.sendTransfer <= 1

\* C8 witness: one node went through transfer, acknowledge, execute and result.
C8_Witness ==
    \E i \in NodeIds :
        /\ etally[i].recvResult = 1
        /\ tally[i]["req"].sendResult = 1
        /\ Succeeded(i)

-----------------------------------------------------------------------------
(* Handler properties *)

\* The handler of connection c of node i takes a message with operation op.
Takes(i, c, op) ==
    /\ inbox[i][c] # <<>>
    /\ inbox'[i][c] = Tail(inbox[i][c])
    /\ Head(inbox[i][c]).Operation = op

\* C6: handling a JobTransfer whose Data is empty, the node replies
\* TransferFailed, never TransferAcknowledge, and neither calls saveBinary nor
\* changes the job binary file.
C6_EmptyTransferFails ==
    [][\A c \in Conns :
         (Takes(TestNode, c, OperationJobTransfer)
            /\ Head(inbox[TestNode][c]).Data = <<>>) =>
              /\ lastSend'[TestNode][c].msg.Operation = OperationTransferFailed
              /\ tally'[TestNode][c] =
                    Bump(tally[TestNode][c], {"recvTransfer", "sendFailed"})
              /\ outbox'[TestNode][c] \in
                    {outbox[TestNode][c],
                     Append(outbox[TestNode][c], lastSend'[TestNode][c].msg)}
              /\ jobBin'[TestNode].writes = jobBin[TestNode].writes
              /\ jobBin'[TestNode].exists = jobBin[TestNode].exists
              /\ jobBin'[TestNode].data = jobBin[TestNode].data]_vars

\* C6 witness: an empty JobTransfer was answered with TransferFailed while the
\* folder could be made, and nothing was written.
C6_Witness ==
    \E c \in Conns :
        /\ tally[TestNode][c].recvTransfer = 1
        /\ tally[TestNode][c].sendFailed = 1
        /\ lastSend[TestNode][c].msg.Data = <<"empty data field">>
        /\ lastSend[TestNode][c].ok
        /\ jobBin[TestNode].dir
        /\ jobBin[TestNode].writes = 0

OtherJobRunning(i, c) == \E d \in Conns \ {c} : running[i][d].active

\* C7: handling a JobExecute whose Task decodes, Status is set to Working when
\* the execution starts (from Idle, when no other job is running on the node)
\* and to Idle when it ends; when the execution returns an error, the Result
\* made, and sent as JobResult, has a non-empty Error and the UUID of the Task.
C7_FailedJobResult ==
    [][\A c \in Conns :
         /\ (~running[TestNode][c].active /\ running'[TestNode][c].active) =>
               /\ status'[TestNode] = StatusWorking
               /\ ~OtherJobRunning(TestNode, c) => status[TestNode] = StatusIDLE
         /\ (running[TestNode][c].active /\ ~running'[TestNode][c].active) =>
               /\ status'[TestNode] = StatusIDLE
               /\ lastMade'[TestNode][c].task = running[TestNode][c].task
               /\ lastMade'[TestNode][c].env = "jobErr" =>
                    /\ lastMade'[TestNode][c].res.Error # <<>>
                    /\ lastMade'[TestNode][c].res.UUID = running[TestNode][c].task.UUID
                    /\ running[TestNode][c].task.UUID # ""
               /\ tally'[TestNode][c].sendResult > tally[TestNode][c].sendResult =>
                    /\ lastSend'[TestNode][c].msg.Operation = OperationJobResult
                    /\ decodeResult(lastSend'[TestNode][c].msg.Data).res =
                          lastMade'[TestNode][c].res]_vars

\* C7 witness: a job failed, its Result was sent and the node is Idle again.
C7_Witness ==
    \E c \in Conns :
        /\ lastMade[TestNode][c].env = "jobErr"
        /\ tally[TestNode][c].made = 1
        /\ tally[TestNode][c].sendResult = 1
        /\ lastSend[TestNode][c].msg.Operation = OperationJobResult
        /\ lastSend[TestNode][c].ok
        /\ status[TestNode] = StatusIDLE

-----------------------------------------------------------------------------
(* Sort and Equals properties *)

\* a is not after b in the lexicographic order of the bytes.
LexLeq(a, b) ==
    LET d == {k \in 1..Len(a) : k <= Len(b) /\ a[k] # b[k]} IN
    IF d = {} THEN Len(a) <= Len(b)
    ELSE LET k == CHOOSE x \in d : \A y \in d : x <= y IN a[k] < b[k]

Sorted == sortOut.build # "none"

\* The place of the entry e in the slice before the sort.
PlaceBefore(e) == CHOOSE k \in 1..Len(sortIn) : sortIn[k] = e

IsPermutation ==
    /\ Len(sortOut.n) = Len(sortIn)
    /\ {sortOut.n[k] : k \in 1..Len(sortOut.n)} = {sortIn[k] : k \in 1..Len(sortIn)}

IsNonDecreasing ==
    \A k \in 1..(Len(sortOut.n) - 1) :
        LexLeq(sortOut.n[k].Addr.IP, sortOut.n[k + 1].Addr.IP)

IsStable ==
    \A i, j \in 1..Len(sortOut.n) :
        (i < j /\ sortOut.n[i].Addr.IP = sortOut.n[j].Addr.IP) =>
            PlaceBefore(sortOut.n[i]) < PlaceBefore(sortOut.n[j])

\* C11 as stated: the result of sort() is a permutation of the input,
\* non-decreasing by the raw IP bytes, and entries with equal IP bytes keep their
\* relative input order.
C11_SortStable ==
    Sorted => IsPermutation /\ IsNonDecreasing /\ IsStable

\* C11 as amended: the result of sort() is a permutation of the input that is
\* non-decreasing by the lexicographic comparison of the raw IP bytes; the
\* relative order of entries with equal IP bytes is not kept in general.
C11_SortPermutationOrdered ==
    Sorted => IsPermutation /\ IsNonDecreasing

\* C11 witness: a slice of the greatest length, with entries of equal bytes and
\* with the 4-byte and 16-byte forms, was moved into order.
C11_Witness ==
    /\ Sorted
    /\ Len(sortIn) = MaxSortLen
    /\ sortOut.n # sortIn
    /\ \E i, j \in 1..Len(sortIn) : i # j /\ sortIn[i].Addr.IP = sortIn[j].Addr.IP
    /\ \E i, j \in 1..Len(sortIn) :
          sortIn[i].Addr.IP = IPa4 /\ sortIn[j].Addr.IP = IPa16

\* C12: Equals is true exactly when the two nodes have the same IP, whatever
\* their ports and other fields are.
C12_EqualsByIP ==
    eqOut # "none" =>
        (eqOut = "true" <=> SameIP(eqIn[1].Addr.IP, eqIn[2].Addr.IP))

\* C12 witness: two nodes of one IP that differ in port and in every other
\* field were found equal; (second) two nodes that differ only in the IP were not.
C12_Witness ==
    /\ eqOut = "true"
    /\ eqIn[1].Addr.IP = eqIn[2].Addr.IP
    /\ eqIn[1].Addr.Port # eqIn[2].Addr.Port
    /\ eqIn[1].Name # eqIn[2].Name
    /\ eqIn[1].Conn # eqIn[2].Conn
    /\ eqIn[1].Status # eqIn[2].Status

C12_WitnessDifferent ==
    /\ eqOut = "false"
    /\ eqIn[1].Addr.IP # eqIn[2].Addr.IP
    /\ [eqIn[1] EXCEPT !.Addr.IP = <<>>] = [eqIn[2] EXCEPT !.Addr.IP = <<>>]

-----------------------------------------------------------------------------
(* Fan-out properties: the goroutines of ExecuteMany *)

InExecute(i) == wpc[i] \in {"start", "waitAck", "waitResult"}

ReturnedError == mpc = "returned" /\ ~ret.err.nil

\* The goroutine of node i hands over its outcome in this step.
HandsOver(i) == wpc[i] # "done" /\ wpc'[i] = "done"

\* C13: when ExecuteMany has returned on the first error the remaining
\* invocations go on (nothing cancels them), each goroutine hands over exactly
\* one outcome on exactly one of the two channels and only to the receiving
\* loop, so a goroutine that reaches its send after the return stays there for
\* ever.
C13_LeakedSenders ==
    [][\A i \in NodeIds :
         /\ (mpc = "returned" /\ wpc[i] = "send") => wpc'[i] = "send"
         /\ (mpc = "returned" /\ InExecute(i)) => wpc'[i] \in {wpc[i], "waitAck", "waitResult", "send"}
         /\ wpc[i] = "done" => wpc'[i] = "done"
         /\ HandsOver(i) =>
               /\ mpc = "loop" /\ wpc[i] = "send"
               /\ \/ /\ wret[i].err.nil
                     /\ results' = Append(results, wret[i].res)
                     /\ ret' = ret /\ mpc' = "loop"
                  \/ /\ ~wret[i].err.nil
                     /\ results' = results
                     /\ ret'.err = workerError(NodeName(i), wret[i].err)
                     /\ mpc' = "returned"]_vars

\* C13 witness: ExecuteMany has returned the error of one node while the
\* goroutine of another node holds the Result of a job that ran and is blocked
\* on its send.
C13_Witness ==
    /\ ReturnedError
    /\ \E i \in margs.n :
          /\ wpc[i] = "send"
          /\ wret[i].err.nil
          /\ etally[i].recvResult = 1

\* (second) ExecuteMany has returned the error of one node while the
\* invocation for another node is still waiting for its reply.
C13_WitnessInFlight ==
    /\ ReturnedError
    /\ \E i \in margs.n : wpc[i] = "waitResult"

-----------------------------------------------------------------------------
(* Callback properties *)

\* The payloads that are the encoding of some Task.
EncodedTasks == {encodeTask([UUID |-> u]) : u \in TaskUUIDs \cup {""}}

\* C14: handling a JobExecute whose payload is not the encoding of a Task, the
\* node sends nothing on any connection, does not start the local execution
\* and leaves Status as it was; the requester is left without any reply.
C14_UndecodableNoReply ==
    [][\A c \in Conns :
         (Takes(TestNode, c, OperationJobExecute)
            /\ Head(inbox[TestNode][c]).Data \notin EncodedTasks) =>
              /\ outbox' = outbox
              /\ lastSend' = lastSend
              /\ status' = status
              /\ running' = running
              /\ lastMade' = lastMade
              /\ jobBin' = jobBin
              /\ tally'[TestNode][c] = Bump(tally[TestNode][c], {"recvExecute"})]_vars

\* C14 witness: an undecodable JobExecute was handled on a connection on which
\* nothing was ever sent or started, while the other connection had a job
\* running, so that Status stayed Working.
C14_Witness ==
    \E c \in Conns :
        /\ tally[TestNode][c] = Bump(NoTally, {"recvExecute"})
        /\ inbox[TestNode][c] = <<>>
        /\ outbox[TestNode][c] = <<>>
        /\ ~running[TestNode][c].active
        /\ OtherJobRunning(TestNode, c)
        /\ status[TestNode] = StatusWorking

\* (second) the same on a node that is Idle and stays Idle.
C14_WitnessIdle ==
    \E c \in Conns :
        /\ tally[TestNode][c] = Bump(NoTally, {"recvExecute"})
        /\ inbox[TestNode][c] = <<>>
        /\ outbox = [i \in NodeIds |-> [d \in Conns |-> <<>>]]
        /\ status[TestNode] = StatusIDLE
        /\ \A d \in Conns : tally[TestNode][d].started = 0

\* The replies sent by the handler of connection c in this step, by the
\* counters of the connection.
SentInStep(c, f) == tally'[TestNode][c][f] - tally[TestNode][c][f]

\* C15: handling a JobTransfer, the node attempts exactly one reply send,
\* TransferAcknowledge or TransferFailed and never both; TransferAcknowledge only
\* when the folder exists, the payload is not empty and the binary was written
\* with that payload; a failure to make the folder, an empty payload and a
\* failure to save each give TransferFailed with the text of the error.
C15_OneTransferReply ==
    [][\A c \in Conns :
         Takes(TestNode, c, OperationJobTransfer) =>
           LET data == Head(inbox[TestNode][c]).Data
               sent == lastSend'[TestNode][c]
               bin == jobBin[TestNode]
               bin2 == jobBin'[TestNode]
           IN  /\ SentInStep(c, "recvTransfer") = 1
               /\ SentInStep(c, "sendAck") + SentInStep(c, "sendFailed") = 1
               /\ SentInStep(c, "sendAck") \in {0, 1}
               /\ SentInStep(c, "sendResult") = 0
               /\ outbox'[TestNode][c] =
                     IF sent.ok THEN Append(outbox[TestNode][c], sent.msg)
                     ELSE outbox[TestNode][c]
               /\ \A d \in Conns \ {c} : outbox'[TestNode][d] = outbox[TestNode][d]
               /\ SentInStep(c, "sendAck") = 1 =>
                     /\ sent.msg.Operation = OperationTransferAcknowledge
                     /\ data # <<>>
                     /\ bin2 = [dir |-> TRUE, exists |-> TRUE, data |-> data,
                                writes |-> bin.writes + 1]
               /\ SentInStep(c, "sendFailed") = 1 =>
                     /\ sent.msg.Operation = OperationTransferFailed
                     /\ \/ /\ sent.msg.Data = MkdirErrText
                           /\ bin2 = bin
                        \/ /\ sent.msg.Data = <<"empty data field">>
                           /\ data = <<>>
                           /\ bin2 = [bin EXCEPT !.dir = TRUE]
                        \/ /\ sent.msg.Data = SaveErrText
                           /\ data # <<>>
                           /\ bin2 = [bin EXCEPT !.dir = TRUE, !.writes = @ + 1]]_vars

\* C15 witness: one connection has had a TransferAcknowledge and each of the
\* three TransferFailed replies is the last one sent on some connection after a
\* transfer.
C15_Witness ==
    \E c, d \in Conns :
        /\ tally[TestNode][c].sendAck = 1
        /\ tally[TestNode][c].sendFailed = 1
        /\ tally[TestNode][c].recvTransfer = 2
        /\ lastSend[TestNode][c].msg.Operation = OperationTransferAcknowledge
        /\ jobBin[TestNode].exists
        /\ tally[TestNode][d].sendFailed = 1
        /\ tally[TestNode][d].recvTransfer = 1
        /\ lastSend[TestNode][d].msg.Data = SaveErrText

C15_WitnessMkdir ==
    \E c \in Conns :
        /\ tally[TestNode][c].sendFailed = 1
        /\ tally[TestNode][c].recvTransfer = 1
        /\ lastSend[TestNode][c].msg =
              Stamp(NodeName(TestNode), Msg(OperationTransferFailed, MkdirErrText))
        /\ ~jobBin[TestNode].dir

-----------------------------------------------------------------------------
(* Fan-out properties: job failures *)

\* The invocation for node i has received the JobResult of the node.
GotResult(i) == Finished(i) /\ etally[i].recvResult = 1

\* The job of node i failed on the node and its JobResult was received.
JobFailedAt(i) == GotResult(i) /\ lastMade[i]["req"].env = "jobErr"

\* The number of results of ExecuteMany that carry an Error.
ErrorResults == Cardinality({k \in 1..Len(ret.results) : ret.results[k].Error # <<>>})

\* C16: a job that fails on the node is no error of the call: the node replies
\* JobResult with a Result whose Error is not empty, the invocation returns that
\* Result with a nil error, and a fan-out in which every invocation received
\* its JobResult returns all the N results, those of the failed jobs among
\* them, and no error.
C16_JobFailureIsSuccess ==
    /\ \A i \in NodeIds :
          JobFailedAt(i) =>
            /\ lastSend[i]["req"].msg.Operation = OperationJobResult
            /\ lastSend[i]["req"].ok
            /\ wret[i].err.nil
            /\ wret[i].res.UUID = margs.t.UUID
            /\ wret[i].res.Error = <<"Unable to run job: ">> \o JobErrText
    /\ (mpc = "returned" /\ \A i \in margs.n : GotResult(i)) =>
          /\ ret.err.nil
          /\ Len(ret.results) = Cardinality(margs.n)
          /\ ErrorResults = Cardinality({i \in margs.n : JobFailedAt(i)})

\* C16 witness: a fan-out over all the nodes has returned with no error, the
\* job failed on one node and ran on another, and both Results were returned.
C16_Witness ==
    /\ mpc = "returned"
    /\ margs.n = NodeIds
    /\ ret.err.nil
    /\ Len(ret.results) = NumNodes
    /\ \E i, j \in NodeIds : JobFailedAt(i) /\ GotResult(j) /\ ~JobFailedAt(j)
    /\ ErrorResults >= 1

-----------------------------------------------------------------------------
(* Properties of concurrent upserts *)

\* The goroutines whose updateNode has changed the registry.
Mutated == {p \in Callers : callers[p].pc \in {"unlock", "done"}}

\* The registries the calls of the goroutines of S give when made one after the
\* other, in every order, on the empty registry.
RECURSIVE SerialResults(_)
SerialResults(S) ==
    IF S = {} THEN {<<>>}
    ELSE UNION {{updateNodeResult(r, callers[p].node) : r \in SerialResults(S \ {p})} :
                  p \in S}

\* C17: concurrent calls of updateNode are atomic: one goroutine at a time is
\* between Lock and Unlock, the registry is at every moment what the calls that
\* have changed it give in some serial order, and no two entries have the same
\* IP, also when two goroutines upsert the same new IP.
C17_UpsertsSerialize ==
    /\ Cardinality({p \in Callers : callers[p].pc \in {"scan", "unlock"}}) <= 1
    /\ \A p \in Callers : callers[p].pc \in {"scan", "unlock"} => nodesLock = p
    /\ nodes \in SerialResults(Mutated)
    /\ \A i, j \in 1..Len(nodes) :
          i # j => ~SameIP(nodes[i].Addr.IP, nodes[j].Addr.IP)

\* C17 witness: two goroutines upserted the same new IP, one in the 4-byte and
\* one in the 16-byte form, the second waited for the lock while the first held
\* it, and the registry holds one entry.
C17_Witness ==
    \E p, q \in Callers :
        /\ p # q
        /\ callers[p].pc = "done" /\ callers[q].pc = "done"
        /\ callers[p].node.Addr.IP = IPa4
        /\ callers[q].node.Addr.IP = IPa16
        /\ callers[p].node.Name # callers[q].node.Name
        /\ Len(nodes) = 1
        /\ \A r \in Callers \ {p, q} : callers[r].pc = "idle"

\* (second) a goroutine is waiting for the lock another one holds.
C17_WitnessWaiting ==
    \E p, q \in Callers :
        /\ callers[p].pc = "scan" /\ callers[q].pc = "lock"
        /\ SameIP(callers[p].node.Addr.IP, callers[q].node.Addr.IP)
        /\ nodesLock = p

\* C18: handling a Status message, whether the node is Idle or Working, the node
\* attempts one reply, which carries the NodeInfo just sampled, and leaves
\* Status, the registry, the running jobs and the job binary as they were.
C18_StatusReplyOnly ==
    [][\A c \in Conns :
         Takes(TestNode, c, OperationStatus) =>
           LET sent == lastSend'[TestNode][c] IN
           /\ sent.msg.NodeInfo \in NodeInfoSamples
           /\ sent.msg.Operation = OperationUnset
           /\ sent.msg.Data = <<>>
           /\ outbox'[TestNode][c] =
                 IF sent.ok THEN Append(outbox[TestNode][c], sent.msg)
                 ELSE outbox[TestNode][c]
           /\ \A d \in Conns \ {c} : outbox'[TestNode][d] = outbox[TestNode][d]
           /\ SentInStep(c, "recvStatus") = 1
           /\ \A f \in {"sendAck", "sendFailed", "sendResult", "started", "made"} :
                 SentInStep(c, f) = 0
           /\ status' = status
           /\ nodes' = nodes
           /\ running' = running
           /\ jobBin' = jobBin]_vars

\* C18 witness: a Status message was handled while Status was Working, the
\* reply with a sampled NodeInfo arrived, and the job is still running with
\* Status Working.
C18_Witness ==
    \E c \in Conns :
        /\ tally[TestNode][c].recvStatusWorking = 1
        /\ tally[TestNode][c].recvStatus = 1
        /\ lastSend[TestNode][c].ok
        /\ lastSend[TestNode][c].msg.NodeInfo.Usage > 0
        /\ OtherJobRunning(TestNode, c)
        /\ status[TestNode] = StatusWorking

\* (second) a Status message was handled on a node that is Idle.
C18_WitnessIdle ==
    \E c \in Conns :
        /\ tally[TestNode][c] = Bump(NoTally, {"recvStatus"})
        /\ lastSend[TestNode][c].msg.NodeInfo \in NodeInfoSamples
        /\ outbox[TestNode][c] # <<>>
        /\ status[TestNode] = StatusIDLE

-----------------------------------------------------------------------------
(* Fan-out properties: termination *)

AllFinished == \A i \in margs.n : Finished(i)

\* C19: once every invocation of Execute that ExecuteMany started has returned,
\* ExecuteMany returns; and ExecuteMany has returned only if an invocation
\* returned an error or all of them have returned, so that with no error and an
\* invocation that never returns it never returns.
C19_ReturnsIffInvocationsReturn ==
    /\ (mpc = "loop" /\ AllFinished) ~> (mpc = "returned")
    /\ [](mpc = "returned" => (AllFinished \/ \E i \in margs.n : Failed(i)))
    /\ []((mpc = "returned" /\ ret.err.nil) => AllFinished)

\* C19 witness: a fan-out with no deadline over all the nodes has returned
\* after every invocation returned, one of them with an error.
C19_Witness ==
    /\ mpc = "returned"
    /\ ~margs.deadline
    /\ margs.n = NodeIds
    /\ AllFinished
    /\ \E i \in margs.n : Failed(i)
    /\ \E i \in margs.n : Succeeded(i)

\* (second) a fan-out with no deadline is in its loop, no invocation has
\* returned an error and one has not returned.
C19_WitnessWaiting ==
    /\ mpc = "loop"
    /\ ~margs.deadline
    /\ Len(results) = NumNodes - 1
    /\ \E i \in margs.n : InExecute(i)
    /\ \A i \in margs.n : ~Failed(i)
    /\ \E k \in 1..Len(results) : results[k].Error # <<>>

-----------------------------------------------------------------------------
(* Status while jobs run *)

JobInProgress(i) == \E c \in Conns : running[i][c].active

\* C20: whenever a local job execution is in progress on the node, Status is
\* Working, also when two JobExecute messages are handled at the same time.
C20_WorkingWhileJobRuns ==
    JobInProgress(TestNode) => status[TestNode] = StatusWorking

====
